---- MODULE Spec2Model ----
(***************************************************************************)
(* A model of loke-redis-cache: the RedisCache facade (get, put, clear,    *)
(* apply), its two single-flight registries, the redis client it talks to  *)
(* and the JavaScript job queue that runs the continuations of its async   *)
(* functions.                                                              *)
(*                                                                         *)
(* Scheduling.  All code runs on one thread.  An async function runs       *)
(* synchronously up to its first await; what follows an await is a job on  *)
(* the promise job queue (mq), run first in, first out.  A redis reply is  *)
(* an I/O event: it is delivered when the job queue has drained.  The      *)
(* client sends its commands over one connection, so redis runs them and   *)
(* answers them in the order they were sent (redisQ).  Callers of the      *)
(* facade and the producers given to apply are user code: a new call and   *)
(* the settling of a producer's promise may come between any two jobs.     *)
(***************************************************************************)
EXTENDS Integers, Sequences, FiniteSets, TLC

\* ------------------------------------------------------------------ bounds

\* The number of facade calls (get, put, clear, apply) made in one behaviour.
MaxCalls == 4

Calls == 1 .. MaxCalls

\* ------------------------------------------------------------ cache keys

\* The key prefix given to the constructor (options.prefix).
prefix == "test:"

\* strings.reduce((out, str, i) => out + values[i - 1] + str), after the
\* callback has run for the indices 1 .. i (JavaScript's, zero-based).
RECURSIVE reduceStrings(_, _, _)
reduceStrings(strings, values, i) ==
    IF i = 0
    THEN strings[1]
    ELSE reduceStrings(strings, values, i - 1) \o values[i] \o strings[i + 1]

\* key.getString(prefix) of the key cacheKey`...` built from the literal
\* segments `strings` and the dynamic `values`.
getString(key, pre) ==
    pre \o reduceStrings(key.strings, key.values, Len(key.strings) - 1)

\* The callback of getMetaString's reduce with the index itself in the
\* braces, which counts the dynamic values from one.
RECURSIVE reduceMetaFromOne(_, _)
reduceMetaFromOne(strings, i) ==
    IF i = 0
    THEN strings[1]
    ELSE reduceMetaFromOne(strings, i - 1) \o "{" \o ToString(i) \o "}"
            \o strings[i + 1]

\* strings.reduce((out, str, i) => out + `{${i - 1}}` + str), after the
\* callback has run for the indices 1 .. i.
RECURSIVE reduceMeta(_, _)
reduceMeta(strings, i) ==
    IF i = 0
    THEN strings[1]
    ELSE reduceMeta(strings, i - 1) \o "{" \o ToString(i - 1) \o "}"
            \o strings[i + 1]

\* key.getMetaString(prefix)
getMetaString(key, pre) == pre \o reduceMeta(key.strings, Len(key.strings) - 1)

cacheKey(strings, values) == [strings |-> strings, values |-> values]

\* The most dynamic values in a key that is rendered.
MaxDynamic == 2

\* The literal segments and the dynamic values the rendered keys are made of.
Literals == { "", "user:", ":$" }

Dynamics == { "x", "5" }

\* cacheKey`...`: the template literals with up to MaxDynamic substitutions,
\* one more literal segment than dynamic values.
TemplateKeys ==
    UNION { { cacheKey(strings, values) :
                strings \in [1 .. n + 1 -> Literals], values \in [1 .. n -> Dynamics] } :
            n \in 0 .. MaxDynamic }

\* The keys the callers use.
CacheKeys == { cacheKey(<<"", ":$">>, <<"x">>) }

RedisKeys == { getString(key, prefix) : key \in CacheKeys }

\* ------------------------------------------------------------ JSON values

\* JavaScript values are named by a tag: "str:bar" is the string bar,
\* "num:1" the number 1, "obj:a=1" the object {a: 1}, "obj:d=Date:2020" the
\* object {d: new Date("2020")} and "obj:d=str:2020" the object {d: "2020"},
\* the Date's toJSON being written "2020".  Their JSON texts are the strings
\* redis stores.  The reviver "date" is the one that returns new Date(value)
\* for the key "d" and the value as it is for any other key.
undefined == "undefined"

\* What the callers put: null, the value whose JSON text is the hardest to
\* tell from no value.
Values == { "null" }

\* What the producers given to apply resolve with.
Results == { "str:bar" }

\* The reviver functions callers pass ("none": no reviver given).
Revivers == { "none" }

\* The values and the revivers of the callers that call one at a time.
AllValues == { "str:bar", "str:", "num:1", "num:0", "bool:false", "null",
               "obj:a=1", "obj:d=Date:2020" }

AllRevivers == { "none", "date" }

TTLs == { 5000 }

\* The callers that bring a ttl and a producer of their own: the ttls they
\* choose from, and what the promiseFn of the c-th call resolves with, no
\* two with the same value.
OwnTTLs == { 5000, 9000 }

PromiseFns == << "str:bar", "num:1", "obj:a=1", "null", "num:0", "str:" >>

JSONstringify(value) ==
    CASE value = "str:bar" -> "\"bar\""
      [] value = "str:" -> "\"\""
      [] value = "num:1" -> "1"
      [] value = "num:0" -> "0"
      [] value = "bool:false" -> "false"
      [] value = "null" -> "null"
      [] value = "obj:a=1" -> "{\"a\":1}"
      [] value = "obj:d=Date:2020" -> "{\"d\":\"2020\"}"
      [] value = "obj:d=str:2020" -> "{\"d\":\"2020\"}"
      [] OTHER -> undefined

JSONparse(text, reviver) ==
    CASE text = "\"bar\"" -> "str:bar"
      [] text = "\"\"" -> "str:"
      [] text = "1" -> "num:1"
      [] text = "0" -> "num:0"
      [] text = "false" -> "bool:false"
      [] text = "null" -> "null"
      [] text = "{\"a\":1}" -> "obj:a=1"
      [] text = "{\"d\":\"2020\"}" ->
            IF reviver = "date" THEN "obj:d=Date:2020" ELSE "obj:d=str:2020"
      [] OTHER -> "throw:SyntaxError"

\* ------------------------------------------------------------------ state

\* The reply of redis to GET for a key it does not hold.
NULL == "<null>"

\* A get that tests the parsed value, `!JSON.parse(valueStr)`.
FalsyParsed(valueStr) == valueStr \in { NULL, "", "null", "0", "false", "\"\"" }

\* !valueStr
Falsy(valueStr) == valueStr = NULL \/ valueStr = ""

StoreError == "throw:StoreError"
ProducerError == "throw:ProducerError"

IsThrow(v) == v \in { StoreError, ProducerError, "throw:SyntaxError" }

VARIABLES
    calls,        \* the facade calls in progress: what was called, where each stands
    ncalls,       \* how many calls have begun
    getCache,     \* this.singleFlightGetCache: key -> the promise stored
    applyCache,   \* this.singleFlightApplyCache
    getP,         \* the promises of the read flights, by the call that began them
    applyP,       \* the promises of the compute flights
    producer,     \* whether the producer called by a compute flight is running
    redisQ,       \* the commands sent to redis and not yet answered
    redis,        \* what redis holds
    mq,           \* the promise job queue
    returned,     \* the call that returned in the last step, as it stood then
    hist,         \* per key, what has happened to it (history, read by the properties only)
    rendered,     \* a cache key and the strings it was rendered to
    serviceQueryCount   \* the counter cached_service_queries_total, by key

vars == << calls, ncalls, getCache, applyCache, getP, applyP, producer,
           redisQ, redis, mq, returned, hist, rendered,
           serviceQueryCount >>

NoFlight == 0

None == "-"

\* A promise: pending, or settled ("ok", "err") with a value; `waiters` are
\* the calls awaiting it, in the order their awaits began.  History: `handed`,
\* singleFlight has returned its outcome to a caller; `wrote`, the flight sent
\* PSETEX; `rejected`, its producer threw; `old`, a clear of its key resolved
\* after it was stored in the map; `stale`, a clear of its key called after
\* it was stored has resolved.
NoPromise == [st |-> "none", val |-> None, waiters |-> << >>, key |-> None,
              handed |-> FALSE, wrote |-> FALSE, rejected |-> FALSE,
              old |-> FALSE, stale |-> FALSE]

\* What a get, an apply or a clear remembers of its key's history at the
\* time it began.
NoSeen == [putVal |-> None, putValA |-> None, putOut |-> None,
           putRev |-> None, cleared |-> 0,
           applied |-> FALSE, failed |-> FALSE]

\* rf, cf: the promises the call awaits (awaited) in singleFlight, from get
\* and from apply; sr, sc: what singleFlight returned to it, and first: the
\* `first` it returned with that, as the metrics label it; cached: what get
\* returned to apply; out: what the call returned or threw.  History: seen;
\* rOld, rStale, oldC, staleC: the flights of its key that were old or stale
\* when it began, and failedC: those whose write had failed and that had
\* handed the failure to a caller; handStale: it was handed the outcome of
\* a flight then stale;
\* rerr: redis failed a command it sent; late: the promise it found in the
\* map had settled already; late and failedC are kept while the call is
\* inside singleFlight;
\* preR, preC: the flights of its key in being when this clear was called.
NoCall == [id |-> 0, op |-> "none", key |-> None, value |-> None, ttl |-> 0,
           reviver |-> "none", pc |-> "idle", rf |-> NoFlight,
           cf |-> NoFlight, sr |-> None, sc |-> None, cached |-> None,
           out |-> None, seen |-> NoSeen, rOld |-> FALSE, rStale |-> FALSE,
           oldC |-> {}, staleC |-> {}, handStale |-> FALSE, rerr |-> FALSE,
           late |-> FALSE, first |-> None, failedC |-> {},
           preR |-> {}, preC |-> {}]

\* A call that has returned holds nothing any more.
DoneCall == [NoCall EXCEPT !.pc = "done"]

Absent == [str |-> NULL, ttl |-> 0, by |-> None]

\* quiet: the key has seen nothing but get and apply calls that redis and
\* the producers served without error; while it is quiet, quietCalls counts
\* the producer calls for it and quietOuts holds what its applies returned.
\* missed: how many applies on the key got undefined from get; produced: how
\* many times a producer was called for the key.
NoHist == [putVal |-> None, putValA |-> None, putOut |-> None,
           putRev |-> None, cleared |-> 0,
           afterPut |-> FALSE, applied |-> FALSE, failed |-> FALSE,
           missed |-> 0, produced |-> 0,
           quiet |-> TRUE,
           purged |-> FALSE, quietCalls |-> 0, quietOuts |-> {}]

Disturbed(h) == [h EXCEPT !.quiet = FALSE, !.quietCalls = 0, !.quietOuts = {}]

\* No key has been rendered.
NoRender == [key |-> None, prefix |-> None, string |-> None, meta |-> None]

Init ==
    /\ calls = [c \in Calls |-> NoCall]
    /\ ncalls = 0
    /\ getCache = [k \in RedisKeys |-> NoFlight]
    /\ applyCache = [k \in RedisKeys |-> NoFlight]
    /\ getP = [c \in Calls |-> NoPromise]
    /\ applyP = [c \in Calls |-> NoPromise]
    /\ producer = [c \in Calls |-> FALSE]
    /\ redisQ = << >>
    /\ redis = [k \in RedisKeys |-> Absent]
    /\ mq = << >>
    /\ returned = NoCall
    /\ hist = [k \in RedisKeys |-> NoHist]
    /\ rendered = NoRender
    /\ serviceQueryCount = [k \in RedisKeys |-> 0]

Job(kind, c, v) == [k |-> kind, c |-> c, v |-> v]

\* A settlement that resumes the caller that began the flight and leaves
\* the callers that joined it waiting.
ResumeFirst(waiters) ==
    IF waiters = << >> THEN << >>
    ELSE << Job("singleFlight", Head(waiters), None) >>

\* The jobs that resume the calls awaiting a promise that has just settled.
Resume(waiters) ==
    [i \in 1 .. Len(waiters) |-> Job("singleFlight", waiters[i], None)]

Pending(c, key) ==
    [NoPromise EXCEPT !.st = "pending", !.waiters = << c >>, !.key = key]

Settle(promise, v) ==
    [promise EXCEPT !.st = IF IsThrow(v) THEN "err" ELSE "ok", !.val = v,
                    !.waiters = << >>]

Command(cmd, key, c, str, ttl) ==
    [cmd |-> cmd, key |-> key, by |-> c, str |-> str, ttl |-> ttl]

Running(c) == calls[c].pc \notin { "idle", "done" }

\* A PSETEX for the key is on its way to redis.
WritePending(key) ==
    \E i \in 1 .. Len(redisQ) : redisQ[i].cmd = "PSETEX" /\ redisQ[i].key = key

\* Another put or clear of the key is in progress.
OtherWriter(c, key) ==
    \E d \in Calls \ { c } :
        Running(d) /\ calls[d].key = key /\ calls[d].op \in { "put", "clear" }

Seen(key) ==
    [putVal |-> hist[key].putVal, putValA |-> hist[key].putValA,
     putOut |-> hist[key].putOut, putRev |-> hist[key].putRev,
     cleared |-> hist[key].cleared, applied |-> hist[key].applied,
     failed |-> hist[key].failed]

\* The promises that have settled and that neither a map nor a call inside
\* singleFlight (or just out of it) holds are garbage.
Collect(promises, map, cs, stages, field) ==
    [f \in Calls |->
        IF /\ promises[f].st \in { "ok", "err" }
           /\ \A k \in RedisKeys : map[k] # f
           /\ \A c \in Calls : ~(cs[c].pc \in stages /\ cs[c][field] = f)
        THEN NoPromise
        ELSE promises[f]]

\* ---------------------------------------------------------- singleFlight

\* A lookup that never finds a promise: every caller begins a flight.
LookupNothing(map, key) == NoFlight

\* const valueP = map.get(key): the promise the map holds, or NoFlight.
Lookup(map, key) == map[key]

\* A singleFlight that forgets map.set.
RegisterNothing(map, key, c) == map

\* map.set(key, valueP), with the promise of the flight that c began.
Register(map, key, c) == [map EXCEPT ![key] = c]

\* singleFlight(this.singleFlightGetCache, redisKey, ...) up to its await,
\* called by c from get(): c awaits the promise the map holds for the key,
\* or calls promiseFn (which sends GET), stores its promise and awaits it.
GetSingleFlight(c, key) ==
    LET f == Lookup(getCache, key) IN
    IF f # NoFlight
    THEN /\ getP' = IF getP[f].st = "pending"
                    THEN [getP EXCEPT ![f].waiters = Append(@, c)]
                    ELSE getP
         /\ mq' = IF getP[f].st = "pending"
                  THEN mq
                  ELSE Append(mq, Job("singleFlight", c, None))
         /\ UNCHANGED << getCache, redisQ >>
    ELSE /\ redisQ' = Append(redisQ, Command("GET", key, c, None, 0))
         /\ getP' = [getP EXCEPT ![c] = Pending(c, key)]
         /\ getCache' = Register(getCache, key, c)
         /\ UNCHANGED mq

\* A get that awaits the compute flight of the key when there is one: one
\* map for get and apply.
GetFlightShared(c, key) ==
    IF applyCache[key] # NoFlight THEN applyCache[key]
    ELSE IF Lookup(getCache, key) # NoFlight THEN Lookup(getCache, key)
    ELSE c

\* The promise c awaits in singleFlight, called from get().
GetFlight(c, key) ==
    IF Lookup(getCache, key) # NoFlight THEN Lookup(getCache, key) ELSE c

\* ------------------------------------------------------------- the calls

\* get(key, reviver) and apply(key, ttl, promiseFn, reviver) up to their
\* first await: apply begins by calling this.get.
BeginGet(op, key, ttl, reviver) ==
    /\ ncalls < MaxCalls
    /\ LET c == ncalls + 1
           f == Lookup(getCache, key)
       IN
       /\ ncalls' = c
       /\ calls' = [calls EXCEPT ![c] =
              [NoCall EXCEPT
                  !.id = c, !.op = op, !.key = key, !.ttl = ttl,
                  !.reviver = reviver, !.pc = "get:singleFlight",
                  !.rf = GetFlight(c, key), !.seen = Seen(key),
                  !.late = f # NoFlight /\ getP[f].st # "pending",
                  !.rOld = f # NoFlight /\ getP[f].old,
                  !.rStale = f # NoFlight /\ getP[f].stale,
                  !.oldC = IF op = "apply"
                           THEN { g \in Calls : applyP[g].key = key /\ applyP[g].old }
                           ELSE {},
                  !.staleC = IF op = "apply"
                             THEN { g \in Calls : applyP[g].key = key /\ applyP[g].stale }
                             ELSE {},
                  !.failedC = IF op = "apply"
                              THEN { g \in Calls : /\ applyP[g].key = key
                                                   /\ applyP[g].st = "err"
                                                   /\ applyP[g].wrote
                                                   /\ applyP[g].handed }
                              ELSE {}]]
       /\ GetSingleFlight(c, key)
    /\ returned' = NoCall
    /\ UNCHANGED << rendered, serviceQueryCount, applyCache, applyP, producer, redis, hist >>

\* put(key, value, ttl, reviver) up to the await in putRawString.
BeginPut(key, value, ttl, reviver) ==
    /\ ncalls < MaxCalls
    /\ LET c == ncalls + 1 IN
       /\ ncalls' = c
       /\ calls' = [calls EXCEPT ![c] =
              [NoCall EXCEPT !.id = c, !.op = "put", !.key = key,
                             !.value = value, !.ttl = ttl, !.reviver = reviver,
                             !.pc = "put:psetex"]]
       /\ redisQ' = Append(redisQ,
              Command("PSETEX", key, c, JSONstringify(value), ttl))
    /\ hist' = [hist EXCEPT ![key] =
          [Disturbed(@) EXCEPT !.putVal = None, !.putValA = None,
                               !.putOut = None, !.putRev = None,
                               !.cleared = 0, !.afterPut = FALSE,
                               !.failed = FALSE]]
    /\ returned' = NoCall
    /\ UNCHANGED << rendered, serviceQueryCount, getCache, applyCache, getP, applyP, producer, redis, mq >>

\* clear(key) up to its await.
BeginClear(key) ==
    /\ ncalls < MaxCalls
    /\ LET c == ncalls + 1 IN
       /\ ncalls' = c
       /\ calls' = [calls EXCEPT ![c] =
              [NoCall EXCEPT
                  !.id = c, !.op = "clear", !.key = key, !.pc = "clear:del",
                  !.seen = Seen(key),
                  !.preR = { f \in Calls : getP[f].key = key },
                  !.preC = { f \in Calls : applyP[f].key = key }]]
       /\ redisQ' = Append(redisQ, Command("DEL", key, c, None, 0))
    /\ hist' = [hist EXCEPT ![key] =
          [Disturbed(@) EXCEPT !.putVal = None, !.putValA = None,
                               !.putOut = None, !.putRev = None,
                               !.applied = FALSE]]
    /\ returned' = NoCall
    /\ UNCHANGED << rendered, serviceQueryCount, getCache, applyCache, getP, applyP, producer, redis, mq >>

\* ------------------------------------------------------------------ redis

\* Redis answers the oldest command.  The reply settles the promise of the
\* promisified client method, which queues the job of the function awaiting it.
ReplyJob(m, v) ==
    CASE m.cmd = "GET" -> Job("getFn", m.by, v)
      [] m.cmd = "PSETEX" -> Job("putRawString", m.by, v)
      [] m.cmd = "DEL" -> Job("clear", m.by, v)

\* A reply is an I/O event: it comes when the job queue has drained.
CanReply == redisQ # << >> /\ mq = << >>

RedisGet ==
    /\ CanReply
    /\ Head(redisQ).cmd = "GET"
    /\ mq' = << ReplyJob(Head(redisQ), redis[Head(redisQ).key].str) >>
    /\ redisQ' = Tail(redisQ)
    /\ returned' = NoCall
    /\ UNCHANGED << rendered, serviceQueryCount, calls, ncalls, getCache, applyCache, getP, applyP,
                    producer, redis, hist >>

RedisPsetex ==
    /\ CanReply
    /\ Head(redisQ).cmd = "PSETEX"
    /\ LET m == Head(redisQ) IN
       /\ redis' = [redis EXCEPT ![m.key] =
              [str |-> m.str, ttl |-> m.ttl, by |-> calls[m.by].op]]
       /\ mq' = << ReplyJob(m, m.str) >>
    /\ redisQ' = Tail(redisQ)
    /\ returned' = NoCall
    /\ UNCHANGED << rendered, serviceQueryCount, calls, ncalls, getCache, applyCache, getP, applyP,
                    producer, hist >>

RedisDel ==
    /\ CanReply
    /\ Head(redisQ).cmd = "DEL"
    /\ redis' = [redis EXCEPT ![Head(redisQ).key] = Absent]
    /\ mq' = << ReplyJob(Head(redisQ),
                          IF redis[Head(redisQ).key] = Absent THEN "0" ELSE "1") >>
    /\ redisQ' = Tail(redisQ)
    /\ returned' = NoCall
    /\ UNCHANGED << rendered, serviceQueryCount, calls, ncalls, getCache, applyCache, getP, applyP,
                    producer, hist >>

\* The command fails: the client calls back with an error.
RedisError ==
    /\ CanReply
    /\ mq' = << ReplyJob(Head(redisQ), StoreError) >>
    /\ redisQ' = Tail(redisQ)
    /\ hist' = [hist EXCEPT ![Head(redisQ).key] = Disturbed(@)]
    /\ calls' = [calls EXCEPT ![Head(redisQ).by].rerr = TRUE]
    /\ returned' = NoCall
    /\ UNCHANGED << rendered, serviceQueryCount, ncalls, getCache, applyCache, getP, applyP,
                    producer, redis >>

\* The value's time to live runs out.  What redis holds is read when it
\* serves a command, so it is enough to let the time run out when the job
\* queue has drained and redis may serve one.
RedisExpire(key) ==
    /\ mq = << >>
    /\ redis[key] # Absent
    /\ redis' = [redis EXCEPT ![key] = Absent]
    /\ hist' = [hist EXCEPT ![key] =
          [Disturbed(@) EXCEPT !.putVal = None, !.putValA = None,
                               !.putOut = None, !.putRev = None,
                               !.applied = FALSE]]
    /\ calls' = [c \in Calls |->
          IF calls[c].key = key
          THEN [calls[c] EXCEPT !.seen.putVal = None, !.seen.putValA = None,
                                !.seen.putOut = None, !.seen.putRev = None,
                                !.seen.applied = FALSE]
          ELSE calls[c]]
    /\ returned' = NoCall
    /\ UNCHANGED << rendered, serviceQueryCount, ncalls, getCache, applyCache, getP, applyP, producer,
                    redisQ, mq >>

\* ------------------------------------------------------- the promise jobs

NextJob(kind) == mq # << >> /\ Head(mq).k = kind

\* The call returns (or throws) `out`.
Return(c, out) == [calls[c] EXCEPT !.out = out, !.pc = "done"]

\* The async function given to singleFlight by get(), after
\* `await this._get(redisKey)`: it returns the reply (or throws redis's
\* error), which settles the flight's promise and queues its waiters.
GetFn ==
    /\ NextJob("getFn")
    /\ LET f == Head(mq).c IN
       /\ getP' = [getP EXCEPT ![f] = Settle(getP[f], Head(mq).v)]
       /\ mq' = Tail(mq) \o Resume(getP[f].waiters)
    /\ returned' = NoCall
    /\ UNCHANGED << rendered, serviceQueryCount, calls, ncalls, getCache, applyCache, applyP, producer,
                    redisQ, redis, hist >>

\* A singleFlight without its finally block.
FinallyNothing(map, c, f, key) == map

\* `finally { map.delete(key) }`, run by the caller c that called promiseFn
\* and by no other caller of the flight f.
Finally(map, c, f, key) ==
    IF f = c THEN [map EXCEPT ![key] = NoFlight] ELSE map

\* A singleFlight that swallows the failure for the callers that joined the
\* flight: they are handed what redis answers for a key it does not hold.
OutcomeSwallowed(promise, c, f) ==
    IF f # c /\ IsThrow(promise.val) THEN NULL ELSE promise.val

\* A singleFlight that throws when a clear has taken the promise it awaited
\* out of the map.
OutcomeCancelled(promise, c, f) ==
    IF promise.old THEN "throw:Cancelled" ELSE promise.val

\* A singleFlight that returns first: true to every caller.
FirstAlways(c, f) == "true"

\* String(first), of the `first` singleFlight returns to the caller c that
\* awaited the promise of f: `return { value, first: true }` to the caller
\* that called promiseFn, `return { value: await valueP, first: false }` to
\* one that found the promise in the map.
First(c, f) == IF f = c THEN "true" ELSE "false"

\* A singleFlight that hands a caller that joined a flight the result of the
\* caller's own promiseFn.
OutcomeOwn(promise, c, f) ==
    IF f # c /\ ~IsThrow(promise.val) THEN JSONstringify(PromiseFns[c])
    ELSE promise.val

\* What singleFlight returns (or throws) to a caller awaiting the promise.
Outcome(promise, c, f) == promise.val

\* singleFlight after `await valueP`, called from get().
SingleFlightGet ==
    /\ NextJob("singleFlight")
    /\ calls[Head(mq).c].pc = "get:singleFlight"
    /\ LET c == Head(mq).c
           f == calls[c].rf
       IN
       /\ getCache' = Finally(getCache, c, f, calls[c].key)
       /\ calls' = [calls EXCEPT ![c].sr = Outcome(getP[f], c, f),
                                 ![c].first = IF IsThrow(Outcome(getP[f], c, f))
                                              THEN None ELSE First(c, f),
                                 ![c].late = FALSE,
                                 ![c].pc = "get:await",
                                 ![c].handStale = getP[f].stale]
       /\ getP' = [getP EXCEPT ![f].handed = TRUE]
       /\ mq' = Append(Tail(mq), Job("get", c, None))
    /\ returned' = NoCall
    /\ UNCHANGED << rendered, serviceQueryCount, ncalls, applyCache, applyP, producer, redisQ, redis, hist >>

\* A get that returns undefined for a value that is falsy once parsed.
GetResultTruthy(valueStr, reviver) ==
    IF IsThrow(valueStr) THEN valueStr
    ELSE IF Falsy(valueStr) THEN undefined
    ELSE IF JSONparse(valueStr, reviver) \in { "null", "num:0", "bool:false", "str:" }
         THEN undefined
    ELSE JSONparse(valueStr, reviver)

\* A get that catches the failure of the fetch and reports a miss.
GetResultSwallow(valueStr, reviver) ==
    IF IsThrow(valueStr) \/ Falsy(valueStr) THEN undefined
    ELSE JSONparse(valueStr, reviver)

\* What get() returns (or throws) given what singleFlight handed it.
GetResult(valueStr, reviver) ==
    IF IsThrow(valueStr) THEN valueStr
    ELSE IF Falsy(valueStr) THEN undefined
    ELSE JSONparse(valueStr, reviver)

\* get() after `await singleFlight(...)`.  Called from apply, its result
\* settles the promise apply awaits.
Get ==
    /\ NextJob("get")
    /\ LET c == Head(mq).c
           result == GetResult(calls[c].sr, calls[c].reviver)
       IN
       /\ IF calls[c].op = "get"
          THEN /\ calls' = [calls EXCEPT ![c] = DoneCall]
               /\ returned' = Return(c, result)
               /\ mq' = Tail(mq)
          ELSE /\ calls' = [calls EXCEPT ![c].cached = result,
                                         ![c].pc = "apply:get",
                                         ![c].rf = NoFlight, ![c].sr = None,
                                         ![c].first = None]
               /\ mq' = Append(Tail(mq), Job("apply", c, None))
               /\ returned' = NoCall
       /\ getP' = Collect(getP, getCache, calls',
                          { "get:singleFlight", "get:await" }, "rf")
    /\ UNCHANGED << rendered, serviceQueryCount, ncalls, getCache, applyCache, applyP, producer, redisQ,
                    redis, hist >>

\* An apply that tests `if (cachedValue)`: null, 0, false and "" are misses.
HitTruthy(cachedValue) ==
    cachedValue \notin { undefined, "null", "num:0", "bool:false", "str:" }

\* cachedValue !== undefined: apply returns what get returned.
Hit(cachedValue) == cachedValue # undefined

\* The history of the key after an apply on it has returned `out`.  failed:
\* an apply has thrown its producer's error, the key being absent and no
\* PSETEX for it on its way, and none has been sent since.  applied: an apply
\* has returned a value, the key being in redis and no clear in progress.
Applied(key, out) ==
    [hist EXCEPT
        ![key].quietOuts = IF hist[key].quiet THEN @ \cup { out } ELSE @,
        ![key].failed = @ \/ (/\ out = ProducerError
                              /\ redis[key] = Absent
                              /\ ~WritePending(key)),
        ![key].applied = @ \/ (/\ ~IsThrow(out)
                               /\ redis[key] # Absent
                               /\ \A d \in Calls :
                                     ~(Running(d) /\ calls[d].key = key
                                                  /\ calls[d].op = "clear"))]

\* An apply that counts a service query on every miss, before it enters
\* singleFlight.
ServiceQueriesEach(first) == 1

\* How many times an apply that enters singleFlight runs
\* `serviceQueryCount.inc({ key: metaKey })`: the statement is in the async
\* function given to singleFlight, which is called for the caller that finds
\* no promise in the map (first) and for no other.
ServiceQueries(first) == IF first THEN 1 ELSE 0

\* apply() after `await this.get(key, reviver)`: it rethrows get's error,
\* returns the cached value, or enters
\* singleFlight(this.singleFlightApplyCache, ...): it awaits the promise the
\* map holds for the key, or calls the producer, stores the promise of the
\* async function around it and awaits that.
Apply ==
    /\ NextJob("apply")
    /\ LET c == Head(mq).c
           key == calls[c].key
           f == Lookup(applyCache, key)
       IN
       IF IsThrow(calls[c].cached) \/ Hit(calls[c].cached)
       THEN /\ calls' = [calls EXCEPT ![c] = DoneCall]
            /\ returned' = Return(c, calls[c].cached)
            /\ hist' = Applied(key, calls[c].cached)
            /\ mq' = Tail(mq)
            /\ UNCHANGED << applyCache, applyP, producer, serviceQueryCount >>
       ELSE IF f # NoFlight
       THEN /\ calls' = [calls EXCEPT ![c].cf = f, ![c].pc = "apply:singleFlight",
                                      ![c].late = applyP[f].st # "pending"]
            /\ applyP' = IF applyP[f].st = "pending"
                         THEN [applyP EXCEPT ![f].waiters = Append(@, c)]
                         ELSE applyP
            /\ mq' = IF applyP[f].st = "pending"
                     THEN Tail(mq)
                     ELSE Append(Tail(mq), Job("singleFlight", c, None))
            /\ returned' = NoCall
            /\ hist' = [hist EXCEPT ![key].missed = @ + 1]
            /\ serviceQueryCount' =
                  [serviceQueryCount EXCEPT ![key] = @ + ServiceQueries(FALSE)]
            /\ UNCHANGED << applyCache, producer >>
       ELSE /\ calls' = [calls EXCEPT ![c].cf = c, ![c].pc = "apply:singleFlight"]
            /\ producer' = [producer EXCEPT ![c] = TRUE]
            /\ applyP' = [applyP EXCEPT ![c] = Pending(c, key)]
            /\ applyCache' = Register(applyCache, key, c)
            /\ hist' = [hist EXCEPT ![key].quietCalls =
                                        IF hist[key].quiet THEN @ + 1 ELSE @,
                                    ![key].missed = @ + 1,
                                    ![key].produced = @ + 1]
            /\ serviceQueryCount' =
                  [serviceQueryCount EXCEPT ![key] = @ + ServiceQueries(TRUE)]
            /\ mq' = Tail(mq)
            /\ returned' = NoCall
    /\ UNCHANGED << rendered, ncalls, getCache, getP, redisQ, redis >>

\* The promise the producer of compute flight f returned settles, with a
\* value or with an error.
ProducerSettle(f, v) ==
    /\ producer[f]
    /\ producer' = [producer EXCEPT ![f] = FALSE]
    /\ mq' = Append(mq, Job("applyFn", f, v))
    /\ hist' = IF IsThrow(v)
               THEN [hist EXCEPT ![calls[f].key] = Disturbed(@)]
               ELSE hist
    /\ applyP' = [applyP EXCEPT ![f].rejected = IsThrow(v)]
    /\ returned' = NoCall
    /\ UNCHANGED << rendered, serviceQueryCount, calls, ncalls, getCache, applyCache, getP, redisQ, redis >>

\* An async function that catches the producer's error and writes it.
WritesAll(v) == TRUE

\* An async function that hands the producer's result on without writing it.
WritesNothing(v) == FALSE

\* What apply's async function does with what the producer settled with:
\* it rethrows its error, or serializes its result and writes it.
Writes(v) == ~IsThrow(v)

\* The async function given to singleFlight by apply(), after
\* `await promiseFn()`: the producer's error rejects the flight's promise;
\* its result is serialized and `return this.putRawString(key, str, ttl)`
\* sends PSETEX.
ApplyFn ==
    /\ NextJob("applyFn")
    /\ LET f == Head(mq).c
           v == Head(mq).v
           key == calls[f].key
       IN
       IF Writes(v)
       THEN /\ redisQ' = Append(redisQ,
                   Command("PSETEX", key, f, JSONstringify(v), calls[f].ttl))
            /\ applyP' = [applyP EXCEPT ![f].wrote = TRUE]
            /\ hist' = [hist EXCEPT ![key].putValA = None, ![key].cleared = 0,
                                    ![key].putOut = None, ![key].putRev = None,
                                    ![key].afterPut = FALSE,
                                    ![key].failed = FALSE]
            /\ mq' = Tail(mq)
       ELSE /\ applyP' = [applyP EXCEPT ![f] = Settle(applyP[f], v)]
            /\ mq' = Tail(mq) \o Resume(applyP[f].waiters)
            /\ UNCHANGED << redisQ, hist >>
    /\ returned' = NoCall
    /\ UNCHANGED << rendered, serviceQueryCount, calls, ncalls, getCache, applyCache, getP, producer,
                    redis >>

\* putRawString after `await this._psetex(...)`: it returns str, or throws
\* redis's error.  Called from put, that resumes put; called from apply's
\* async function, which returned its promise, the flight's promise follows
\* that promise one job later.
PutRawString ==
    /\ NextJob("putRawString")
    /\ LET c == Head(mq).c IN
       /\ mq' = Append(Tail(mq),
              Job(IF calls[c].op = "put" THEN "put" ELSE "applyFnReturn", c, Head(mq).v))
       /\ calls' = IF calls[c].op = "put"
                   THEN [calls EXCEPT ![c].pc = "put:await"]
                   ELSE calls
    /\ returned' = NoCall
    /\ UNCHANGED << rendered, serviceQueryCount, ncalls, getCache, applyCache, getP, applyP, producer,
                    redisQ, redis, hist >>

\* The promise of apply's async function settles as the promise it returned.
ApplyFnReturn ==
    /\ NextJob("applyFnReturn")
    /\ LET f == Head(mq).c IN
       /\ applyP' = [applyP EXCEPT ![f] = Settle(applyP[f], Head(mq).v)]
       /\ mq' = Tail(mq) \o Resume(applyP[f].waiters)
    /\ returned' = NoCall
    /\ UNCHANGED << rendered, serviceQueryCount, calls, ncalls, getCache, applyCache, getP, producer,
                    redisQ, redis, hist >>

\* singleFlight after `await valueP`, called from apply().
SingleFlightApply ==
    /\ NextJob("singleFlight")
    /\ calls[Head(mq).c].pc = "apply:singleFlight"
    /\ LET c == Head(mq).c
           f == calls[c].cf
       IN
       /\ applyCache' = Finally(applyCache, c, f, calls[c].key)
       /\ calls' = [calls EXCEPT ![c].sc = Outcome(applyP[f], c, f),
                                 ![c].first = IF IsThrow(Outcome(applyP[f], c, f))
                                              THEN None ELSE First(c, f),
                                 ![c].late = FALSE, ![c].failedC = {},
                                 ![c].pc = "apply:await",
                                 ![c].handStale = applyP[f].stale]
       /\ applyP' = [applyP EXCEPT ![f].handed = TRUE]
       /\ mq' = Append(Tail(mq), Job("applyResult", c, None))
    /\ returned' = NoCall
    /\ UNCHANGED << rendered, serviceQueryCount, ncalls, getCache, getP, producer, redisQ, redis,
                    hist >>

\* What put and apply return (or throw) given the string written.
ParseResult(str, reviver) == IF IsThrow(str) THEN str ELSE JSONparse(str, reviver)

\* apply() after `await singleFlight(...)`.
ApplyResult ==
    /\ NextJob("applyResult")
    /\ LET c == Head(mq).c
           out == ParseResult(calls[c].sc, calls[c].reviver)
       IN
       /\ calls' = [calls EXCEPT ![c] = DoneCall]
       /\ returned' = Return(c, out)
       /\ hist' = Applied(calls[c].key, out)
       /\ applyP' = Collect(applyP, applyCache, calls',
                            { "apply:singleFlight", "apply:await" }, "cf")
    /\ mq' = Tail(mq)
    /\ UNCHANGED << rendered, serviceQueryCount, ncalls, getCache, applyCache, getP, producer, redisQ,
                    redis >>

\* A put that echoes the value it was given.
PutResultEcho(value, str, reviver) == IF IsThrow(str) THEN str ELSE value

\* What put returns (or throws): `return JSON.parse(str, reviver)`, of the
\* string it stored and not of the value it was given.
PutResult(value, str, reviver) == ParseResult(str, reviver)

\* put() after `await this.putRawString(key, str, ttl)`.
Put ==
    /\ NextJob("put")
    /\ LET c == Head(mq).c
           key == calls[c].key
           out == PutResult(calls[c].value, Head(mq).v, calls[c].reviver)
           last == /\ ~IsThrow(out)
                   /\ ~OtherWriter(c, key)
                   /\ redis[key].str = Head(mq).v
       IN
       /\ calls' = [calls EXCEPT ![c] = DoneCall]
       /\ returned' = Return(c, out)
       /\ hist' = [hist EXCEPT
              ![key].putVal = IF last THEN calls[c].value ELSE None,
              ![key].putValA = IF last /\ redis[key].by = "put" /\ ~WritePending(key)
                               THEN calls[c].value ELSE None,
              ![key].putOut = IF last /\ redis[key].by = "put" /\ ~WritePending(key)
                              THEN out ELSE None,
              ![key].putRev = IF last /\ redis[key].by = "put" /\ ~WritePending(key)
                              THEN calls[c].reviver ELSE None]
    /\ mq' = Tail(mq)
    /\ UNCHANGED << rendered, serviceQueryCount, ncalls, getCache, applyCache, getP, applyP, producer,
                    redisQ, redis >>

\* The clear deletes from the map the promise of a flight of the key.
Purges(map, key) == map[key] # NoFlight

\* How many clears of the key in a row have resolved, the clear c being the
\* last, with no write to the key sent since the first of them: 2 stands for
\* two or more.
ClearsInARow(c, key) ==
    IF WritePending(key) THEN 0
    ELSE IF hist[key].cleared > 0 /\ calls[c].seen.cleared > 0 THEN 2
    ELSE 1

\* The promises of the key as a clear that resolves leaves them: all are old,
\* those in being when the clear was called (pre) are stale.
Age(promises, key, pre) ==
    [f \in Calls |->
        IF promises[f].key = key
        THEN [promises[f] EXCEPT !.old = TRUE, !.stale = @ \/ f \in pre]
        ELSE promises[f]]

\* A clear that leaves the maps alone.
ClearedNothing(map, key, failed) == map

\* The maps after `await this._del(redisKey)` in clear: redis's error is
\* rethrown before the maps are touched; otherwise the key leaves the map.
Cleared(map, key, failed) ==
    IF failed THEN map ELSE [map EXCEPT ![key] = NoFlight]

\* A clear that throws when redis deleted nothing.
ClearResultFound(v) ==
    IF IsThrow(v) THEN v ELSE IF v = "0" THEN "throw:NotFound" ELSE undefined

\* What clear returns (or throws) given redis's reply to DEL, the number of
\* keys deleted: the number is dropped.
ClearResult(v) == IF IsThrow(v) THEN v ELSE undefined

\* clear() after `await this._del(redisKey)`.
Clear ==
    /\ NextJob("clear")
    /\ LET c == Head(mq).c
           key == calls[c].key
           failed == IsThrow(Head(mq).v)
       IN
       /\ getCache' = Cleared(getCache, key, failed)
       /\ applyCache' = Cleared(applyCache, key, failed)
       /\ calls' = [calls EXCEPT ![c] = DoneCall]
       /\ returned' = Return(c, ClearResult(Head(mq).v))
       /\ getP' = IF failed THEN getP ELSE Age(getP, key, calls[c].preR)
       /\ applyP' = IF failed THEN applyP ELSE Age(applyP, key, calls[c].preC)
       /\ hist' = IF failed THEN hist
                  ELSE [hist EXCEPT
                          ![key].cleared = ClearsInARow(c, key),
                          ![key].afterPut = ClearsInARow(c, key) > 0
                                            /\ (@ \/ calls[c].seen.putVal # None),
                          ![key].purged = @ \/ Purges(getCache, key)
                                            \/ Purges(applyCache, key)]
    /\ mq' = Tail(mq)
    /\ UNCHANGED << rendered, serviceQueryCount, ncalls, producer, redisQ, redis >>

\* ------------------------------------------------------ the specification

Next ==
    \/ \E key \in RedisKeys, reviver \in Revivers :
          BeginGet("get", key, 0, reviver)
    \/ \E key \in RedisKeys, ttl \in TTLs, reviver \in Revivers :
          BeginGet("apply", key, ttl, reviver)
    \/ \E key \in RedisKeys, value \in Values, ttl \in TTLs, reviver \in Revivers :
          BeginPut(key, value, ttl, reviver)
    \/ \E key \in RedisKeys : BeginClear(key)
    \/ RedisGet
    \/ RedisPsetex
    \/ RedisDel
    \/ RedisError
    \/ \E key \in RedisKeys : RedisExpire(key)
    \/ \E f \in Calls, v \in Results \cup { ProducerError } : ProducerSettle(f, v)
    \/ GetFn
    \/ SingleFlightGet
    \/ Get
    \/ Apply
    \/ ApplyFn
    \/ PutRawString
    \/ ApplyFnReturn
    \/ SingleFlightApply
    \/ ApplyResult
    \/ Put
    \/ Clear

Spec == Init /\ [][Next]_vars

\* Redis answers every command: the client calls back, with a reply or with
\* an error.
Reply == RedisGet \/ RedisPsetex \/ RedisDel \/ RedisError

\* The event loop runs the job at the head of the queue.
RunJob ==
    \/ GetFn
    \/ SingleFlightGet
    \/ Get
    \/ Apply
    \/ ApplyFn
    \/ PutRawString
    \/ ApplyFnReturn
    \/ SingleFlightApply
    \/ ApplyResult
    \/ Put
    \/ Clear

\* Every promise a producer returned settles.
ProducerSettles == \E f \in Calls, v \in Results \cup { ProducerError } : ProducerSettle(f, v)

\* The cache where redis answers every command, every producer's promise
\* settles and the event loop runs every queued job.
SpecFair ==
    /\ Init
    /\ [][Next]_vars
    /\ WF_vars(Reply)
    /\ WF_vars(RunJob)
    /\ WF_vars(ProducerSettles)

\* No call is in progress.
Idle == \A c \in Calls : ~Running(c)

\* The callers that call one at a time, each call beginning when the one
\* before has returned, with any of the values and any of the revivers.
NextInTurn ==
    \/ Idle /\ \E key \in RedisKeys, reviver \in AllRevivers :
                  BeginGet("get", key, 0, reviver)
    \/ Idle /\ \E key \in RedisKeys, ttl \in TTLs, reviver \in AllRevivers :
                  BeginGet("apply", key, ttl, reviver)
    \/ Idle /\ \E key \in RedisKeys, value \in AllValues, ttl \in TTLs,
                    reviver \in AllRevivers :
                  BeginPut(key, value, ttl, reviver)
    \/ Idle /\ \E key \in RedisKeys : BeginClear(key)
    \/ RedisGet
    \/ RedisPsetex
    \/ RedisDel
    \/ RedisError
    \/ \E key \in RedisKeys : RedisExpire(key)
    \/ \E f \in Calls, v \in AllValues \cup { ProducerError } : ProducerSettle(f, v)
    \/ GetFn
    \/ SingleFlightGet
    \/ Get
    \/ Apply
    \/ ApplyFn
    \/ PutRawString
    \/ ApplyFnReturn
    \/ SingleFlightApply
    \/ ApplyResult
    \/ Put
    \/ Clear

SpecInTurn == Init /\ [][NextInTurn]_vars

\* The applies that each bring a ttl of their own and a promiseFn of their
\* own: the promiseFn that the call f gave resolves with PromiseFns[f], or
\* rejects.
NextOwn ==
    \/ \E key \in RedisKeys, ttl \in OwnTTLs, reviver \in Revivers :
          BeginGet("apply", key, ttl, reviver)
    \/ RedisGet
    \/ RedisPsetex
    \/ RedisError
    \/ \E key \in RedisKeys : RedisExpire(key)
    \/ \E f \in Calls : \E v \in { PromiseFns[f], ProducerError } : ProducerSettle(f, v)
    \/ GetFn
    \/ SingleFlightGet
    \/ Get
    \/ Apply
    \/ ApplyFn
    \/ PutRawString
    \/ ApplyFnReturn
    \/ SingleFlightApply
    \/ ApplyResult

SpecOwn == Init /\ [][NextOwn]_vars

\* The rendering of cache keys: any template key is built, and rendered with
\* the prefix of the cache.
InitKey ==
    /\ calls = [c \in Calls |-> NoCall]
    /\ ncalls = 0
    /\ getCache = [k \in RedisKeys |-> NoFlight]
    /\ applyCache = [k \in RedisKeys |-> NoFlight]
    /\ getP = [c \in Calls |-> NoPromise]
    /\ applyP = [c \in Calls |-> NoPromise]
    /\ producer = [c \in Calls |-> FALSE]
    /\ redisQ = << >>
    /\ redis = [k \in RedisKeys |-> Absent]
    /\ mq = << >>
    /\ returned = NoCall
    /\ hist = [k \in RedisKeys |-> NoHist]
    /\ serviceQueryCount = [k \in RedisKeys |-> 0]
    /\ rendered \in { [NoRender EXCEPT !.key = key, !.prefix = prefix] :
                         key \in TemplateKeys }

\* key.getString(this.prefix) and key.getMetaString(this.prefix)
Render ==
    /\ rendered.string = None
    /\ rendered' = [rendered EXCEPT
          !.string = getString(rendered.key, rendered.prefix),
          !.meta = getMetaString(rendered.key, rendered.prefix)]
    /\ UNCHANGED << calls, ncalls, getCache, applyCache, getP, applyP, producer,
                    redisQ, redis, mq, returned, hist, serviceQueryCount >>

SpecKey == InitKey /\ [][Render]_vars

\* ----------------------------------------------------------- properties

\* The promises of a registry that are unsettled, for a key.
Unsettled(promises, key) ==
    { f \in Calls : promises[f].key = key /\ promises[f].st = "pending" }

C2_OneUnsettledAlways ==
    \A k \in RedisKeys :
        /\ Cardinality(Unsettled(getP, k)) <= 1
        /\ Cardinality(Unsettled(applyP, k)) <= 1

\* C2: at every instant each registry has at most one unsettled flight per
\* key, as long as no clear of the key has removed a flight's promise from a
\* registry.
C2_OneUnsettled ==
    \A k \in RedisKeys :
        ~hist[k].purged =>
            /\ Cardinality(Unsettled(getP, k)) <= 1
            /\ Cardinality(Unsettled(applyP, k)) <= 1

\* Two calls await the one unsettled flight of a key that clears have left
\* alone, one clear at least having resolved.
C2_Witness ==
    \E k \in RedisKeys, f \in Calls :
        /\ ~hist[k].purged
        /\ hist[k].cleared > 0
        /\ f \in Unsettled(getP, k)
        /\ Len(getP[f].waiters) >= 2

\* C3: every caller of a flight, the one that began it and those that joined
\* it, is handed by singleFlight what the flight's promise settled with, and a
\* failure comes out of get and apply as it is.
C3_SameOutcome ==
    /\ \A c \in Calls :
          /\ calls[c].pc = "get:await" =>
                /\ getP[calls[c].rf].st \in { "ok", "err" }
                /\ calls[c].sr = getP[calls[c].rf].val
          /\ calls[c].pc = "apply:await" =>
                /\ applyP[calls[c].cf].st \in { "ok", "err" }
                /\ calls[c].sc = applyP[calls[c].cf].val
    /\ returned.op = "get" /\ IsThrow(returned.sr) => returned.out = returned.sr
    /\ returned.op = "apply" /\ returned.cf # NoFlight /\ IsThrow(returned.sc) =>
          returned.out = returned.sc

\* The caller that began a compute flight and a caller that joined it have
\* both been handed the producer's error.
C3_Witness ==
    \E c, d \in Calls :
        /\ c # d
        /\ calls[c].pc = "apply:await" /\ calls[d].pc = "apply:await"
        /\ calls[c].cf = c /\ calls[d].cf = c
        /\ calls[c].sc = ProducerError /\ calls[d].sc = ProducerError

\* C4: a compute flight whose producer rejected sends no PSETEX, settles
\* with the producer's error and, once a caller has been handed that error,
\* is no longer in the registry: the next apply that misses calls its
\* producer.  A get that began after an apply had thrown its producer's
\* error, the key being absent and no PSETEX for it on its way or sent since,
\* returns undefined (or throws redis's error).
C4_RejectionWritesNothing ==
    /\ \A f \in Calls :
          applyP[f].rejected =>
              /\ ~applyP[f].wrote
              /\ \A i \in 1 .. Len(redisQ) :
                    ~(redisQ[i].cmd = "PSETEX" /\ redisQ[i].by = f)
              /\ applyP[f].st # "ok"
              /\ applyP[f].st = "err" => applyP[f].val = ProducerError
              /\ applyP[f].handed => applyCache[applyP[f].key] # f
    /\ returned.op = "get" /\ returned.seen.failed =>
          returned.out \in { undefined, StoreError }

\* An apply that began after an apply on the key had failed with the
\* producer's error has called its producer, the key being absent still.
C4_Witness ==
    \E c \in Calls :
        /\ calls[c].op = "apply"
        /\ calls[c].seen.failed
        /\ calls[c].cf = c
        /\ producer[c]
        /\ redis[calls[c].key] = Absent

\* C5 as stated: a call that enters singleFlight for a key after a flight of
\* the key has settled begins a flight of its own; it never awaits a promise
\* that had settled already.
C5_FreshAfterSettlement ==
    \A c \in Calls : ~calls[c].late

\* C5: once singleFlight has returned a flight's outcome to one of its
\* callers the flight's promise is out of the registry, so that a call that
\* enters singleFlight from then on does not join it.
C5_RemovedBeforeReturn ==
    \A k \in RedisKeys :
        /\ getCache[k] # NoFlight => ~getP[getCache[k]].handed
        /\ applyCache[k] # NoFlight => ~applyP[applyCache[k]].handed

\* A caller that joined a read flight has been handed its failure, and a call
\* that came after began a flight.
C5_Witness ==
    \E c, d \in Calls, k \in RedisKeys :
        /\ calls[c].pc = "get:await"
        /\ calls[c].rf # c
        /\ getP[calls[c].rf].handed
        /\ IsThrow(calls[c].sr)
        /\ getCache[k] = d
        /\ d > c

\* C6: an apply to which get returned a value returns that value; it calls
\* no producer, enters no compute flight and sends no PSETEX.  An apply that
\* began after an apply on the key had returned a value, the key being in
\* redis and no clear of it in progress, with no clear and no expiry of the
\* key since, enters no compute flight.
C6_HitFastPath ==
    /\ \A c \in Calls :
          /\ calls[c].cf # NoFlight => calls[c].cached = undefined
          /\ calls[c].cached \notin { None, undefined } =>
                /\ ~producer[c]
                /\ applyP[c] = NoPromise
                /\ \A i \in 1 .. Len(redisQ) : redisQ[i].by # c
          /\ calls[c].seen.applied => calls[c].cf = NoFlight
    /\ returned.op = "apply" /\ returned.cached # undefined =>
          /\ returned.out = returned.cached
          /\ returned.cf = NoFlight
          /\ ~producer[returned.id]
          /\ applyP[returned.id] = NoPromise
    /\ returned.op = "apply" /\ returned.seen.applied => returned.cf = NoFlight

\* The second apply returns the value the first one stored.
C6_Witness ==
    /\ returned.op = "apply"
    /\ returned.seen.applied
    /\ returned.cached \in Results
    /\ returned.out = returned.cached

\* C7 as stated: a get that began after a put of V had resolved, with no put,
\* clear or expiry of the key since, returns V (or throws redis's error).
C7_GetAfterPutAlways ==
    returned.op = "get" /\ returned.seen.putVal # None /\ ~IsThrow(returned.out) =>
        returned.out = returned.seen.putVal

\* C7: a get that began after a put of V had resolved, with no put, clear or
\* expiry of the key since and no PSETEX of a compute flight for the key
\* run or sent since the put's, returns V (or throws redis's error).
C7_GetAfterPut ==
    returned.op = "get" /\ returned.seen.putValA # None /\ ~IsThrow(returned.out) =>
        returned.out = returned.seen.putValA

\* The get returns null, which was put.
C7_Witness ==
    /\ returned.op = "get"
    /\ returned.seen.putValA = "null"
    /\ returned.out = "null"

\* C8: a get that began after a clear of the key had resolved, no PSETEX for
\* the key having been sent since the clear was answered, returns undefined
\* (or throws redis's error); and a clear fails only if redis fails its DEL,
\* be the key there or not.
C8_ClearThenGet ==
    /\ returned.op = "get" /\ returned.seen.cleared > 0 =>
          returned.out \in { undefined, StoreError }
    /\ returned.op = "clear" =>
          returned.out = IF returned.rerr THEN StoreError ELSE undefined

\* After a put, a clear and a second clear in a row, the get returns undefined.
C8_Witness ==
    /\ returned.op = "get"
    /\ returned.seen.cleared = 2
    /\ hist[returned.key].afterPut
    /\ returned.out = undefined

\* C9 as stated: once a clear of a key has resolved, singleFlight hands no
\* call the outcome of a flight of the key that was in the registry when the
\* clear was called.
C9_NoStaleHandout ==
    /\ \A c \in Calls : ~calls[c].handStale
    /\ ~returned.handStale

\* C9: a call that begins after a clear of its key has resolved is handed the
\* outcome of no flight that was in the registry when the clear was called.
C9_NoStaleHandoutToLaterCalls ==
    /\ \A c \in Calls : ~calls[c].rStale /\ calls[c].cf \notin calls[c].staleC
    /\ ~returned.rStale /\ returned.cf \notin returned.staleC

\* An apply that began after the clear, a compute flight older than the
\* clear being unsettled still, returns what a flight of its own produced.
C9_Witness ==
    /\ returned.op = "apply"
    /\ returned.staleC # {}
    /\ returned.cf = returned.id
    /\ returned.out \in Results

\* C10: a call that begins after a clear of its key has resolved awaits no
\* flight that was in a registry when the clear resolved: its GET is sent (by
\* itself or by another call) after the clear resolved, and the compute
\* flight it awaits began after the clear resolved.
C10_NoJoinAcrossClear ==
    \A c \in Calls : ~calls[c].rOld /\ calls[c].cf \notin calls[c].oldC

\* A call that began after the clear, a read flight older than the clear
\* being unsettled still, has sent a GET of its own.
C10_Witness ==
    \E c, f \in Calls :
        /\ c # f
        /\ calls[c].seen.cleared > 0
        /\ calls[c].pc = "get:singleFlight"
        /\ calls[c].rf = c
        /\ getP[f].key = calls[c].key
        /\ getP[f].old
        /\ getP[f].st = "pending"
        /\ getP[c].st = "pending"

\* The values that are falsy in JavaScript and have a JSON text.
FalsyValues == { "null", "num:0", "bool:false", "str:" }

\* C11: with the callers calling one at a time, a get of a key that holds
\* the JSON text of null, 0, false or "" returns that value and not
\* undefined; an apply that follows a put of such a value returns the value,
\* and an apply that follows an apply that returned one enters no compute
\* flight: the producer is not called.
C11_FalsyIsHit ==
    /\ returned.op = "get" /\ ~IsThrow(returned.out) =>
          \A v \in FalsyValues :
              redis[returned.key].str = JSONstringify(v) => returned.out = v
    /\ returned.op = "apply" /\ returned.seen.putValA \in FalsyValues
                             /\ ~IsThrow(returned.out) =>
          /\ returned.out = returned.seen.putValA
          /\ returned.cached = returned.seen.putValA
          /\ returned.cf = NoFlight
    /\ \A c \in Calls :
          calls[c].seen.putValA \in FalsyValues \/ calls[c].seen.applied =>
              calls[c].cf = NoFlight /\ ~producer[c]

\* An apply that followed a put of 0 has returned 0.
C11_Witness ==
    /\ returned.op = "apply"
    /\ returned.seen.putValA = "num:0"
    /\ returned.out = "num:0"
    /\ returned.cf = NoFlight

\* C12: with the callers calling one at a time, a get that follows a put,
\* with the reviver the put was given, returns what the put returned (or
\* throws redis's error), and the put returned the value its reviver makes
\* of the string it stored.
C12_PutReturnsWhatGetReturns ==
    /\ returned.op = "get" /\ returned.seen.putOut # None
                           /\ returned.reviver = returned.seen.putRev
                           /\ ~IsThrow(returned.out) =>
          returned.out = returned.seen.putOut
    /\ returned.op = "put" /\ ~IsThrow(returned.out) =>
          returned.out = JSONparse(JSONstringify(returned.value), returned.reviver)

\* With no reviver the put of {d: new Date("2020")} returned {d: "2020"},
\* and so does the get.
C12_Witness ==
    /\ returned.op = "get"
    /\ returned.reviver = "none"
    /\ returned.seen.putValA = "obj:d=Date:2020"
    /\ returned.seen.putOut = "obj:d=str:2020"
    /\ returned.out = "obj:d=str:2020"

\* l0 + v1 + l1 + ... + vn + ln
RECURSIVE Interleave(_, _)
Interleave(ls, vs) ==
    IF vs = << >> THEN ls[1]
    ELSE ls[1] \o vs[1] \o Interleave(Tail(ls), Tail(vs))

\* {0}, {1}, ..., {n-1}
Placeholders(n) == [i \in 1 .. n |-> "{" \o ToString(i - 1) \o "}"]

\* C13: the string of a key built from the literals l0..ln and the values
\* v1..vn is prefix + l0 + v1 + l1 + ... + vn + ln, and its meta string is
\* the same with {i-1} in the place of vi.
C13_KeyStrings ==
    rendered.string # None =>
        /\ rendered.string =
              rendered.prefix \o Interleave(rendered.key.strings, rendered.key.values)
        /\ rendered.meta =
              rendered.prefix \o Interleave(rendered.key.strings,
                                            Placeholders(Len(rendered.key.values)))

\* cacheKey`user:${"5"}:$${"x"}` has been rendered.
C13_Witness ==
    /\ rendered.key = cacheKey(<<"user:", ":$", "">>, <<"5", "x">>)
    /\ rendered.string = "test:user:5:$x"
    /\ rendered.meta = "test:user:{0}:${1}"

\* C14: a flight that is unsettled, no clear of its key having resolved
\* since it was stored in the map, is in the map still, whatever other
\* flights of the key have settled meanwhile: the calls that begin attach to
\* it.
C14_OwnEntryOnly ==
    \A k \in RedisKeys, f \in Calls :
        /\ getP[f].key = k /\ getP[f].st = "pending" /\ ~getP[f].old =>
              getCache[k] = f
        /\ applyP[f].key = k /\ applyP[f].st = "pending" /\ ~applyP[f].old =>
              applyCache[k] = f

\* A get or an apply is in progress.
Reading == \E c \in Calls : Running(c) /\ calls[c].op \in { "get", "apply" }

\* C15: whenever no get and no apply is in progress both maps are empty,
\* also after flights that failed and after clears that took the promise of
\* an unsettled flight out of a map.
C15_EmptyWhenIdle ==
    ~Reading =>
        \A k \in RedisKeys : getCache[k] = NoFlight /\ applyCache[k] = NoFlight

\* The last apply in progress has thrown its producer's error, a clear
\* having taken the promise of a flight out of a map before: no get and no
\* apply is in progress and the maps are empty.
C15_Witness ==
    /\ ~Reading
    /\ returned.op = "apply"
    /\ returned.out = ProducerError
    /\ hist[returned.key].purged
    /\ getCache[returned.key] = NoFlight
    /\ applyCache[returned.key] = NoFlight

\* The compute flight f is on its way: its producer runs, or its async
\* function is about to go on, or its PSETEX is with redis.
OnItsWay(f) ==
    \/ producer[f]
    \/ \E i \in 1 .. Len(mq) :
          mq[i].c = f /\ mq[i].k \in { "applyFn", "putRawString", "applyFnReturn" }
    \/ \E i \in 1 .. Len(redisQ) : redisQ[i].by = f /\ redisQ[i].cmd = "PSETEX"

\* C16: a compute flight whose promise a clear has taken out of the map goes
\* on: while it is unsettled it is on its way and the callers that awaited it
\* await it still; if it settles with a string it has sent that string to
\* redis; and its callers are handed what it settled with.
C16_ClearDoesNotCancel ==
    /\ \A f \in Calls :
          applyP[f].old =>
              /\ applyP[f].st = "pending" => OnItsWay(f)
              /\ applyP[f].st = "ok" => applyP[f].wrote /\ ~applyP[f].rejected
    /\ \A c \in Calls :
          calls[c].cf # NoFlight /\ applyP[calls[c].cf].old =>
              /\ calls[c].pc = "apply:singleFlight"
                  /\ applyP[calls[c].cf].st = "pending" =>
                      \E i \in 1 .. Len(applyP[calls[c].cf].waiters) :
                          applyP[calls[c].cf].waiters[i] = c
              /\ calls[c].pc = "apply:await" =>
                      calls[c].sc = applyP[calls[c].cf].val

\* Two applies and then a clear were called, and no call since: the clear
\* has resolved, the key is in redis again with the producer's result, and
\* the apply that began the flight and the one that joined it have been
\* handed the string written.
C16_Witness ==
    /\ ncalls = 3
    /\ calls[3] = DoneCall
    /\ calls[1].pc = "apply:await" /\ calls[1].cf = 1
    /\ calls[2].pc = "apply:await" /\ calls[2].cf = 1
    /\ applyP[1].old /\ applyP[1].stale
    /\ redis[calls[1].key].by = "apply"
    /\ calls[1].sc = redis[calls[1].key].str
    /\ calls[2].sc = redis[calls[1].key].str

\* The GETs of the call c that redis has not answered, or whose answer the
\* call's async function has not taken yet.
Fetches(c) ==
    Cardinality({ i \in 1 .. Len(redisQ) :
                    redisQ[i].cmd = "GET" /\ redisQ[i].by = c })
    + Cardinality({ i \in 1 .. Len(mq) : mq[i].k = "getFn" /\ mq[i].c = c })

\* The GETs for the key that redis has not answered.
FetchesOf(key) ==
    Cardinality({ i \in 1 .. Len(redisQ) :
                    redisQ[i].cmd = "GET" /\ redisQ[i].key = key })

\* C17: there is one GET for each read flight and none beside: the call that
\* began a flight has one GET out while the flight is unsettled, and a call
\* that found a read flight in the map sends none; so, as long as no clear
\* has taken a flight's promise out of a map, at most one GET for the key is
\* out.  A get that awaited a flight is handed what the flight's GET
\* returned and returns what get makes of it.
C17_OneFetchPerFlight ==
    /\ \A c \in Calls :
          /\ Fetches(c) = IF getP[c].st = "pending" THEN 1 ELSE 0
          /\ calls[c].pc = "get:singleFlight" /\ calls[c].rf # c => Fetches(c) = 0
          /\ calls[c].pc = "get:await" => calls[c].sr = getP[calls[c].rf].val
    /\ \A k \in RedisKeys : ~hist[k].purged => FetchesOf(k) <= 1
    /\ returned.op = "get" =>
          returned.out = IF IsThrow(returned.sr) THEN returned.sr
                         ELSE IF returned.sr \in { NULL, "" } THEN undefined
                         ELSE JSONparse(returned.sr, returned.reviver)

\* Three gets have been handed the answer to the one GET that was sent, the
\* first get's.
C17_Witness ==
    /\ ncalls = 3
    /\ \A c \in 1 .. 3 :
          /\ calls[c].op = "get"
          /\ calls[c].pc = "get:await"
          /\ calls[c].rf = 1
          /\ calls[c].sr = getP[1].val
    /\ getP[2] = NoPromise /\ getP[3] = NoPromise
    /\ redisQ = << >>

\* The PSETEX commands of compute flight f that redis has not answered.
WritesOut(f) ==
    Cardinality({ i \in 1 .. Len(redisQ) :
                    redisQ[i].cmd = "PSETEX" /\ redisQ[i].by = f })

\* Where compute flight f stands between the call of the producer and the
\* settlement of the flight's promise: the producer is running, or its
\* settlement, the write, redis's answer or the async function's return is
\* under way.
Stages(f) ==
    (IF producer[f] THEN 1 ELSE 0)
    + WritesOut(f)
    + Cardinality({ i \in 1 .. Len(mq) :
                      /\ mq[i].c = f
                      /\ mq[i].k \in { "applyFn", "applyFnReturn" } })
    + Cardinality({ i \in 1 .. Len(mq) :
                      /\ mq[i].c = f
                      /\ mq[i].k = "putRawString"
                      /\ calls[f].op = "apply" })

\* C18: a compute flight is at one stage at a time (producer, write, answer,
\* settlement), so its PSETEX is sent once, after the producer has settled
\* and with the producer's serialized result; a flight that settled with a
\* value has sent its PSETEX and redis has answered it; and a caller of the
\* flight, first or attached, is handed the value only then.
C18_WriteThenReturn ==
    /\ \A f \in Calls :
          /\ applyP[f].st = "pending" => Stages(f) = 1
          /\ applyP[f].st # "pending" /\ calls[f].op # "put" => Stages(f) = 0
          /\ WritesOut(f) > 0 /\ calls[f].op = "apply" =>
                /\ ~producer[f]
                /\ applyP[f].st = "pending" /\ applyP[f].wrote
          /\ applyP[f].st = "ok" =>
                /\ applyP[f].wrote
                /\ WritesOut(f) = 0
                /\ applyP[f].val \in { JSONstringify(v) : v \in Results }
    /\ \A c \in Calls :
          calls[c].pc = "apply:await" /\ ~IsThrow(calls[c].sc) =>
              /\ applyP[calls[c].cf].st = "ok"
              /\ calls[c].sc = applyP[calls[c].cf].val

\* The first caller and an attached one have been handed the string that
\* the flight wrote, and redis holds it.
C18_Witness ==
    /\ ncalls = 2
    /\ calls[1].pc = "apply:await" /\ calls[1].cf = 1
    /\ calls[2].pc = "apply:await" /\ calls[2].cf = 1
    /\ applyP[1].st = "ok" /\ applyP[1].wrote /\ ~applyP[1].old
    /\ redis[calls[1].key].by = "apply"
    /\ calls[1].sc = redis[calls[1].key].str
    /\ calls[2].sc = redis[calls[1].key].str
    /\ redisQ = << >>

\* The apply call c has started no compute flight and has nothing under way:
\* no producer, no write, and no GET that redis has yet to answer.
NothingUnderWay(c) ==
    /\ calls[c].cf = NoFlight
    /\ ~producer[c]
    /\ applyP[c] = NoPromise
    /\ Stages(c) = 0
    /\ \A i \in 1 .. Len(redisQ) : redisQ[i].by # c

\* C19: an apply whose GET redis answered with an error, and an apply that
\* awaited that GET's flight, is handed the error by singleFlight and by get,
\* and throws it; from the failure on it calls no producer, joins no compute
\* flight, and sends neither a PSETEX nor a second GET.
C19_FetchFailureFailsApply ==
    /\ \A c \in Calls :
          calls[c].op = "apply" =>
              /\ calls[c].rerr /\ calls[c].cf = NoFlight =>
                    /\ calls[c].pc \in { "get:singleFlight", "get:await", "apply:get" }
                    /\ NothingUnderWay(c)
                    /\ getP[c].st = "pending" => Fetches(c) = 1
                    /\ calls[c].pc = "get:await" => calls[c].sr = StoreError
                    /\ calls[c].pc = "apply:get" => calls[c].cached = StoreError
              /\ calls[c].pc = "get:await" /\ calls[c].sr = StoreError =>
                    NothingUnderWay(c) /\ Fetches(c) = 0
              /\ calls[c].pc = "apply:get" /\ calls[c].cached = StoreError =>
                    NothingUnderWay(c) /\ Fetches(c) = 0
    /\ /\ returned.op = "apply"
       /\ returned.cached = StoreError \/ (returned.rerr /\ returned.cf = NoFlight)
       => /\ returned.out = StoreError
          /\ returned.cf = NoFlight
          /\ returned.cached = StoreError

\* The apply whose GET failed and an apply that awaited the same read flight
\* have both been handed the error by get; nothing is under way and redis
\* holds nothing.
C19_Witness ==
    /\ ncalls = 2
    /\ calls[1].op = "apply" /\ calls[1].pc = "apply:get"
    /\ calls[2].op = "apply" /\ calls[2].pc = "apply:get"
    /\ calls[1].rerr /\ ~calls[2].rerr
    /\ calls[1].cached = StoreError /\ calls[2].cached = StoreError
    /\ redisQ = << >>
    /\ \A k \in RedisKeys : redis[k] = Absent

\* C20: a compute flight whose PSETEX redis answered with an error settles
\* with that error and not with the producer's result; every caller that
\* awaited it, first or attached, is handed the error and throws it; the
\* flight sends no second PSETEX and calls no second producer; once a caller
\* has been handed the error the flight is out of the map, and an apply that
\* begins after that does not await that flight.
C20_WriteFailureFailsFlight ==
    /\ \A f \in Calls :
          /\ calls[f].op = "apply" /\ calls[f].rerr /\ calls[f].cf = f =>
                /\ applyP[f].wrote /\ ~applyP[f].rejected
                /\ applyP[f].st \in { "pending", "err" }
                /\ WritesOut(f) = 0
                /\ ~producer[f]
                /\ calls[f].pc = "apply:await" =>
                      /\ calls[f].sc = StoreError
                      /\ applyCache[calls[f].key] # f
          /\ applyP[f].st = "err" /\ applyP[f].wrote =>
                /\ applyP[f].val = StoreError
                /\ applyP[f].handed => applyCache[applyP[f].key] # f
    /\ \A c \in Calls :
          /\ /\ calls[c].pc = "apply:await"
             /\ applyP[calls[c].cf].st = "err"
             /\ applyP[calls[c].cf].wrote
             => calls[c].sc = StoreError
          /\ calls[c].op = "apply" => calls[c].cf \notin calls[c].failedC
    /\ returned.op = "apply" /\ returned.sc = StoreError =>
          returned.out = StoreError

\* An apply that began after a compute flight of its key had handed the
\* failure of its write to a caller has missed and has called its producer.
C20_Witness ==
    \E c \in Calls :
        /\ calls[c].op = "apply"
        /\ calls[c].failedC # {}
        /\ calls[c].cf = c
        /\ producer[c]
        /\ applyCache[calls[c].key] = c
        /\ redis[calls[c].key] = Absent

\* What the get call c has to do with the compute side: nothing.  It holds
\* no compute flight, is in no compute flight's queue and in no entry of
\* applyCache; inside singleFlight it awaits a read flight of its key, whose
\* GET is out or answered whatever the producers do.
GetKeepsToReads(c) ==
    /\ calls[c].cf = NoFlight
    /\ applyP[c] = NoPromise
    /\ ~producer[c]
    /\ \A k \in RedisKeys : applyCache[k] # c
    /\ \A f \in Calls :
          \A i \in 1 .. Len(applyP[f].waiters) : applyP[f].waiters[i] # c
    /\ calls[c].pc = "get:singleFlight" =>
          LET f == calls[c].rf IN
          /\ getP[f].st # "none"
          /\ getP[f].key = calls[c].key
          /\ getP[f].st = "pending" =>
                /\ Fetches(f) = 1
                /\ \E i \in 1 .. Len(getP[f].waiters) : getP[f].waiters[i] = c

\* C21: after every step, a get call has nothing to do with the compute
\* side (GetKeepsToReads), and every entry of applyCache is the flight of an
\* apply call that is past its get; and a step that changes applyCache is
\* a step of an apply call past its get, or of a clear.
C21_RegistriesIndependent ==
    [][ /\ \A c \in Calls : calls'[c].op = "get" => GetKeepsToReads(c)'
        /\ \A k \in RedisKeys :
              applyCache'[k] # NoFlight =>
                  /\ calls'[applyCache'[k]].op = "apply"
                  /\ calls'[applyCache'[k]].cf = applyCache'[k]
        /\ applyCache' # applyCache =>
              /\ mq # << >>
              /\ \/ calls[Head(mq).c].op = "clear"
                 \/ /\ calls[Head(mq).c].op = "apply"
                    /\ calls[Head(mq).c].pc \in { "apply:get", "apply:singleFlight" }
      ]_vars

\* A get has returned undefined while the compute flight of its key is in
\* the map and its producer is running.
C21_Witness ==
    /\ returned.op = "get"
    /\ returned.out = undefined
    /\ \E f \in Calls :
          /\ applyCache[returned.key] = f
          /\ producer[f]
          /\ applyP[f].st = "pending"

\* C22: where redis answers every command and every producer's promise
\* settles, every call that has begun returns or throws: get, put, clear and
\* apply, those that joined a flight as those that began it, also when a
\* clear takes the flight out of the map or the flight fails.
C22_EveryCallSettles ==
    \A c \in Calls : Running(c) ~> calls[c].pc = "done"

\* An apply awaits a compute flight that another call began, that a clear
\* has taken out of the map, and that has failed: the caller is in the queue
\* to be resumed.
C22_Witness ==
    \E c, f \in Calls :
        /\ c # f
        /\ calls[c].pc = "apply:singleFlight"
        /\ calls[c].cf = f
        /\ applyP[f].old
        /\ applyP[f].st = "err"
        /\ \E i \in 1 .. Len(mq) : mq[i].k = "singleFlight" /\ mq[i].c = c

\* C23 as stated: the service queries counted for a key are as many as the
\* applies on the key that missed.
C23_QueryPerMiss ==
    \A k \in RedisKeys : serviceQueryCount[k] = hist[k].missed

\* C23: the service queries counted for a key are as many as the producer
\* calls for the key, one for each compute flight begun; an apply that
\* misses and joins a compute flight counts none, so they are at most as
\* many as the applies that missed, and fewer once an apply has joined.
C23_QueryPerFlight ==
    \A k \in RedisKeys :
        /\ serviceQueryCount[k] = hist[k].produced
        /\ serviceQueryCount[k] <= hist[k].missed
        /\ (\E c \in Calls : calls[c].key = k /\ calls[c].cf \notin { NoFlight, c })
           => /\ serviceQueryCount[k] >= 1
              /\ serviceQueryCount[k] < hist[k].missed

\* Two applies on a key have missed, the second has joined the compute
\* flight of the first, and one service query has been counted.
C23_Witness ==
    /\ ncalls = 2
    /\ calls[1].cf = 1 /\ calls[2].cf = 1
    /\ calls[2].pc = "apply:singleFlight"
    /\ hist[calls[1].key].missed = 2
    /\ serviceQueryCount[calls[1].key] = 1

\* The caller c has come out of singleFlight on the promises `promises`,
\* where it awaited the flight f and was handed v: it was told first: true
\* if it began the flight (the promise is its own, for its key),
\* first: false if it found the promise of another caller in the map and
\* began none, and nothing if singleFlight threw.
Reported(promises, c, f, v) ==
    /\ IsThrow(v) => calls[c].first = None
    /\ ~IsThrow(v) /\ f = c =>
          /\ calls[c].first = "true"
          /\ promises[c].st = "ok"
          /\ promises[c].key = calls[c].key
    /\ ~IsThrow(v) /\ f # c =>
          /\ calls[c].first = "false"
          /\ promises[c] = NoPromise
          /\ promises[f].st = "ok"

\* C24: of the callers that come out of a flight with its value, the one
\* that found no promise in the map and called promiseFn, and that one
\* alone, is told first: true; those that awaited the promise they found are
\* told first: false.  This for the flights of get and for those of apply.
C24_FirstIsTheStarter ==
    /\ \A c \in Calls :
          /\ calls[c].pc = "get:await" =>
                Reported(getP, c, calls[c].rf, calls[c].sr)
          /\ calls[c].pc = "apply:await" =>
                Reported(applyP, c, calls[c].cf, calls[c].sc)
    /\ \A c, d \in Calls :
          /\ c # d
          /\ calls[c].first = "true" /\ calls[d].first = "true"
          /\ calls[c].pc = calls[d].pc
          => /\ calls[c].pc = "get:await" => calls[c].rf # calls[d].rf
             /\ calls[c].pc = "apply:await" => calls[c].cf # calls[d].cf

\* Three applies have come out of one compute flight with its value: the
\* one that began it was told first: true, the two that joined it first:
\* false.
C24_Witness ==
    /\ ncalls = 3
    /\ \A c \in 1 .. 3 :
          /\ calls[c].pc = "apply:await"
          /\ calls[c].cf = 1
          /\ ~IsThrow(calls[c].sc)
    /\ calls[1].first = "true"
    /\ calls[2].first = "false"
    /\ calls[3].first = "false"

\* The apply c awaits, or has awaited, a compute flight that another call
\* began.
Joined(c) == calls[c].op = "apply" /\ calls[c].cf \notin { NoFlight, c }

\* C25: an apply that joined a compute flight has no producer running, no
\* flight of its own and no PSETEX out, and the string it is handed is the
\* serialized result of the promiseFn of the call that began the flight;
\* every PSETEX of a compute flight carries that string and the ttl of the
\* call that began the flight, whatever the ttls of those that joined; and
\* the apply returns the parse of that string.
C25_StarterProducerAndTtl ==
    /\ \A c \in Calls :
          Joined(c) =>
              /\ ~producer[c]
              /\ applyP[c] = NoPromise
              /\ Stages(c) = 0
              /\ \A k \in RedisKeys : applyCache[k] # c
              /\ calls[c].pc = "apply:await" /\ ~IsThrow(calls[c].sc) =>
                    calls[c].sc = JSONstringify(PromiseFns[calls[c].cf])
    /\ \A i \in 1 .. Len(redisQ) :
          redisQ[i].cmd = "PSETEX" =>
              LET f == redisQ[i].by IN
              /\ calls[f].cf = f
              /\ redisQ[i].ttl = calls[f].ttl
              /\ redisQ[i].str = JSONstringify(PromiseFns[f])
    /\ /\ returned.op = "apply"
       /\ returned.cf \notin { NoFlight, returned.id }
       /\ ~IsThrow(returned.sc)
       => returned.out = JSONparse(JSONstringify(PromiseFns[returned.cf]),
                                   returned.reviver)

\* The second apply, with a ttl and a promiseFn other than the first's, has
\* joined the first's compute flight and has been handed the first's
\* result; redis holds that result with the first's ttl.
C25_Witness ==
    /\ ncalls = 2
    /\ calls[1].cf = 1 /\ calls[2].cf = 1
    /\ calls[1].ttl = 5000 /\ calls[2].ttl = 9000
    /\ calls[2].pc = "apply:await"
    /\ calls[2].sc = JSONstringify(PromiseFns[1])
    /\ calls[2].sc # JSONstringify(PromiseFns[2])
    /\ redis[calls[1].key].str = JSONstringify(PromiseFns[1])
    /\ redis[calls[1].key].ttl = 5000

====
